---- MODULE Spec2Model ----
(***************************************************************************)
(* A model of the Genes widget (OWGenes.py): the GeneInfoModel table model *)
(* with its row cache, the OWGenes input handling, the background gene     *)
(* matcher worker, and the assembly of the output tables in commit.        *)
(*                                                                         *)
(* Text is a sequence of one-character strings, so that str.strip, lower   *)
(* and substring search are computed.  An optional value is a sequence of  *)
(* length 0 (Python None) or 1.                                            *)
(***************************************************************************)
EXTENDS Integers, Sequences, FiniteSets, TLC

VARIABLES
    upstream,               \* the tables the input signal can carry
    \* OWGenes
    input_data,             \* None or the input table
    input_genes,            \* None or the list of gene names read from it
    tax_id,                 \* None or the taxonomy id read from the table
    selected_organism,      \* index (from 0) into organisms
    selected_gene_col,      \* 0 for None, else the index of a column of metas
    use_attr_names,         \* genes are the feature names
    exclude_unmatched,
    replace_id_with_symbol,
    exclude_radio,          \* the 'Exclude unmatched genes' box is enabled
    replace_radio,          \* the 'Replace feature IDs' box is enabled
    gene_matcher,           \* None or the current GeneMatcher
    threadpool,             \* the workers started and not yet finished
    selection,              \* Entrez ids of the rows selected in table_view
    data_out,               \* last value sent on Outputs.data_table
    genes_out,              \* last value sent on Outputs.gene_matcher_results
    \* GeneInfoModel (OWGenes.table_model)
    data_table,             \* None or the rows built from the known genes
    table,                  \* the rows the model wraps (_table)
    row_cache,              \* the lru_cache of _row_instance
    \* observation of the last handler
    last_op,                \* handle_input with its data, if it ran last
    error,                  \* the exception that ended it, or "none"
    committed,              \* the handler ran the body of commit
    result,                 \* the value the handler returned
    equal_nan               \* np.unique takes the NaNs of a column as one value

vars == <<upstream, input_data, input_genes, tax_id, selected_organism, selected_gene_col,
          use_attr_names, exclude_unmatched, replace_id_with_symbol,
          exclude_radio, replace_radio, gene_matcher, threadpool, selection, data_out, genes_out,
          data_table, table, row_cache, last_op, error, committed, result,
          equal_nan>>


-----------------------------------------------------------------------------
(* Bounds *)

\* workers that may be in flight at once
MaxWorkers == 2
\* rows data() is asked for: 0 .. MaxRow
MaxRow == 1
\* columns of a table given to gene_column_identifier
MaxCols == 2
\* rows of a table given to gene_column_identifier
ColumnRows == 2

-----------------------------------------------------------------------------
(* Python values *)

None == <<>>
Some(x) == <<x>>
IsNone(o) == Len(o) = 0
Val(o) == o[1]

Range(s) == {s[i] : i \in 1..Len(s)}

RECURSIVE lstrip(_)
lstrip(s) == IF s # <<>> /\ Head(s) = " " THEN lstrip(Tail(s)) ELSE s

RECURSIVE rstrip(_)
rstrip(s) ==
    IF s # <<>> /\ s[Len(s)] = " " THEN rstrip(SubSeq(s, 1, Len(s) - 1)) ELSE s

\* str.strip()
strip(s) == rstrip(lstrip(s))

lower_char(c) == IF c = "A" THEN "a" ELSE IF c = "B" THEN "b" ELSE c

\* str.lower()
lower(s) == [i \in 1..Len(s) |-> lower_char(s[i])]

\* str.rfind(pattern) # -1
contains(s, pattern) ==
    \E i \in 0..(Len(s) - Len(pattern)) :
        SubSeq(s, i + 1, i + Len(pattern)) = pattern

Digit(d) == CASE d = 0 -> "0" [] d = 1 -> "1" [] d = 2 -> "2" [] d = 3 -> "3"
              [] d = 4 -> "4" [] d = 5 -> "5" [] d = 6 -> "6" [] d = 7 -> "7"
              [] d = 8 -> "8" [] d = 9 -> "9"

RECURSIVE str(_)
\* str(n) of a non-negative integer
str(n) == IF n < 10 THEN <<Digit(n)>> ELSE str(n \div 10) \o <<Digit(n % 10)>>

Unknown == <<"?">>

-----------------------------------------------------------------------------
(* taxonomy and GeneMatcher, the services the widget calls *)

\* taxonomy.common_taxids() in the order of taxonomy.name: Homo sapiens,
\* Mus musculus
organisms == <<"9606", "10090">>

\* a Gene of the matcher before run_matcher reached it
NewGene(name) == [input_name |-> name, ncbi_id |-> 0, symbol |-> <<>>]

\* what run_matcher finds for one gene (case_insensitive = True)
match_gene(organism, gene) ==
    LET key == lower(gene.input_name) IN
    CASE organism = "9606" /\ key = <<"a">> ->
            [gene EXCEPT !.ncbi_id = 10, !.symbol = <<"A">>]
      [] organism = "9606" /\ key = <<"b">> ->
            [gene EXCEPT !.ncbi_id = 2, !.symbol = <<"B">>]
      [] organism = "10090" /\ key = <<"b">> ->
            [gene EXCEPT !.ncbi_id = 7, !.symbol = <<"B">>]
      [] OTHER -> gene

\* GeneMatcher(organism); matcher.genes = names
NewGeneMatcher(organism, names) ==
    [organism |-> organism, genes |-> [i \in 1..Len(names) |-> NewGene(names[i])]]

\* Gene.to_list() as np.asarray stores it: every cell a string
to_list(gene) == <<gene.input_name, str(gene.ncbi_id), gene.symbol>>

get_known_genes(matcher) == SelectSeq(matcher.genes, LAMBDA g : g.ncbi_id # 0)

\* the genes run_matcher has a result for after k genes
run_matcher_step(matcher, k) ==
    [matcher EXCEPT !.genes[k] = match_gene(matcher.organism, matcher.genes[k])]

-----------------------------------------------------------------------------
(* GeneInfoModel *)

\* index of 'ncbi_id' in GENE_MATCHER_HEADER, counted from 0
entrez_column_index == 1

\* the columns of the model: 0 .. LastColumn
LastColumn == 2

CacheKeys == (0..MaxRow) \X (0..LastColumn)

EmptyCache == [k \in CacheKeys |-> None]

\* np.array([[]])
ClearedTable == << <<>> >>

table_from_genes(list_of_genes) ==
    [i \in 1..Len(list_of_genes) |-> to_list(list_of_genes[i])]

\* GeneInfoModel.initialize: data_table, before show_table()
initialize_table(list_of_genes) ==
    table_from_genes(SelectSeq(list_of_genes, LAMBDA g : g.ncbi_id # 0))

\* the rows of data_table that filter_table marks True
filter_table(rows, filter_pattern) ==
    SelectSeq(rows, LAMBDA row :
        \E c \in 1..Len(row) : contains(lower(row[c]), lower(filter_pattern)))

\* show_table: the rows wrapped and the row cache, which is cleared only when
\* a filter pattern is given
show_table(rows, filter_pattern, cache) ==
    IF filter_pattern # <<>>
    THEN [table |-> filter_table(rows, filter_pattern), cache |-> EmptyCache]
    ELSE [table |-> rows, cache |-> cache]

\* self[int(row)][int(column)]: None stands for IndexError
cell_at(rows, row, column) ==
    IF row + 1 <= Len(rows) /\ column + 1 <= Len(rows[row + 1])
    THEN Some(rows[row + 1][column + 1])
    ELSE None

\* GeneInfoModel.data(index, Qt.DisplayRole): the value returned and the cache
model_data(rows, cache, row, column) ==
    IF ~(0 <= row /\ row <= Len(rows))
    THEN [value |-> None, cache |-> cache]
    ELSE IF ~IsNone(cache[<<row, column>>])
    THEN [value |-> cache[<<row, column>>], cache |-> cache]
    ELSE LET value == cell_at(rows, row, column) IN
         IF IsNone(value)
         THEN [value |-> None, cache |-> cache]
         ELSE [value |-> value,
               cache |-> [cache EXCEPT ![<<row, column>>] = value]]

\* the Entrez ids of the rows the view shows
shown_ids(rows) ==
    {rows[i][entrez_column_index + 1] :
        i \in {j \in 1..Len(rows) : Len(rows[j]) > entrez_column_index}}

-----------------------------------------------------------------------------
(* Orange.data.Table, as far as the widget reads it *)

\* A table is a record
\*   attrs : the names of the features (domain.attributes)
\*   metas : the meta columns, each [kind, values] with one value per row; a
\*           missing value is the empty string
\*   n     : the number of rows
\*   tax   : attributes.get(TAX_ID), None when absent
\*   gaa   : attributes.get(GENE_AS_ATTRIBUTE_NAME), None when absent
\* No table below has a column named as the target database (NCBI_ID).

Missing == <<>>

\* the variables of gene_columns_model: DomainModel(valid_types=(StringVariable,
\* DiscreteVariable)), as indices into metas in the order of the domain
gene_columns_model(t) ==
    SelectSeq([i \in 1..Len(t.metas) |-> i],
              LAMBDA i : t.metas[i].kind \in {"string", "discrete"})

\* np.unique(column).size.  A missing value of a string column is the empty
\* string, one value.  A missing value of a discrete column is NaN: np.unique
\* keeps every NaN of an object array, and of any array before NumPy 1.21,
\* and takes the NaNs of a float array as one value from NumPy 1.21 on.
unique_size(column, nan_as_one) ==
    LET present == Range(column.values) \ {Missing}
        missing == {i \in 1..Len(column.values) : column.values[i] = Missing}
    IN IF column.kind = "string" \/ nan_as_one
       THEN Cardinality(Range(column.values))
       ELSE Cardinality(present) + Cardinality(missing)

RECURSIVE insert_by_key(_, _)
\* one step of sorted(..., key=lambda x: x[1]): x goes after every element whose
\* key is not greater (the sort is stable)
insert_by_key(sorted, x) ==
    IF sorted = <<>> THEN <<x>>
    ELSE IF sorted[Len(sorted)][2] <= x[2] THEN Append(sorted, x)
    ELSE Append(insert_by_key(SubSeq(sorted, 1, Len(sorted) - 1), x),
                sorted[Len(sorted)])

RECURSIVE sorted_by_key(_)
sorted_by_key(s) ==
    IF s = <<>> THEN <<>>
    ELSE insert_by_key(sorted_by_key(SubSeq(s, 1, Len(s) - 1)), s[Len(s)])

\* candidates -> (variable, num of unique values)
candidates(t, nan_as_one) ==
    LET cols == gene_columns_model(t) IN
    [i \in 1..Len(cols) |->
        <<cols[i], unique_size(t.metas[cols[i]], nan_as_one)>>]

\* the element of the sorted candidates that is taken: the last
best_of_sorted(sorted) == sorted[Len(sorted)]

\* gene_column_identifier: the column, or None for the IndexError raised when
\* there is no candidate
gene_column_identifier(t, nan_as_one) ==
    IF candidates(t, nan_as_one) = <<>> THEN None
    ELSE Some(best_of_sorted(sorted_by_key(candidates(t, nan_as_one)))[1])

-----------------------------------------------------------------------------
(* OWGenes.commit *)

\* get_target_ids
get_target_ids(matcher) ==
    [i \in 1..Len(matcher.genes) |->
        IF matcher.genes[i].ncbi_id # 0 THEN str(matcher.genes[i].ncbi_id)
        ELSE Unknown]

\* known_genes = [gid for gid in gene_ids if gid != '?']
known_genes(gene_ids) == SelectSeq(gene_ids, LAMBDA gid : gid # Unknown)

\* col[:] = gene_ids on a column of n rows: numpy broadcasts a list of one
\* element and raises ValueError (None) for any other length than n
assign_column(n, gene_ids) ==
    IF Len(gene_ids) = n THEN Some(gene_ids)
    ELSE IF Len(gene_ids) = 1 THEN Some([i \in 1..n |-> gene_ids[1]])
    ELSE None

\* the features of the input as they enter the output: src is the position
\* in the input domain, entrez the attribute attributes[target_database]
input_features(t) ==
    [i \in 1..Len(t.attrs) |-> [name |-> t.attrs[i], src |-> i, entrez |-> None]]

\* rows-as-genes, lines 500-533: the table sent, or the error
commit_rows(t, matcher, selected_genes, exclude, organism) ==
    LET gene_ids == get_target_ids(matcher)
        known == known_genes(gene_ids)
        col == assign_column(t.n, gene_ids)
    IN
    IF IsNone(col) THEN [error |-> "ValueError", data |-> None]
    ELSE
    LET all_rows == [i \in 1..t.n |-> [src |-> i, entrez |-> Some(Val(col)[i])]]
        selected_rows ==
            SelectSeq(all_rows, LAMBDA r : Val(r.entrez) \in selected_genes)
        picked == IF selected_rows # <<>> THEN selected_rows ELSE all_rows
        kept == IF exclude
                THEN SelectSeq(picked, LAMBDA r : Val(r.entrez) \in Range(known))
                ELSE picked
    IN [error |-> "none",
        data |-> Some([features |-> input_features(t), rows |-> kept,
                       tax |-> organism, gaa |-> FALSE])]

\* renaming that does not ask for replace_id_with_symbol
renamed_always(name, gene, replace) ==
    IF gene.symbol # <<>> THEN gene.symbol ELSE name

\* the name a feature gets at lines 546-551; a gene without a symbol raises
\* AttributeError and the name stays
renamed(name, gene, replace) ==
    IF replace /\ gene.symbol # <<>> THEN gene.symbol ELSE name

\* lines 541-551 for one gene: table.domain[gene.input_name] is found by the
\* name the feature has in the input
annotate(t, features, gene, replace) ==
    [i \in 1..Len(features) |->
        IF t.attrs[i] = gene.input_name
        THEN [features[i] EXCEPT
                !.entrez = Some(IF gene.ncbi_id # 0 THEN str(gene.ncbi_id)
                                ELSE Unknown),
                !.name = renamed(features[i].name, gene, replace)]
        ELSE features[i]]

RECURSIVE annotate_all(_, _, _, _)
\* for gene in self.gene_matcher.genes
annotate_all(t, features, genes, replace) ==
    IF genes = <<>> THEN features
    ELSE annotate_all(t, annotate(t, features, Head(genes), replace),
                      Tail(genes), replace)

\* line 564: col.attributes[target_database] in known_genes; a feature without
\* the attribute raises KeyError
exclude_features(output_attrs, known) ==
    IF \E i \in 1..Len(output_attrs) : IsNone(output_attrs[i].entrez)
    THEN None
    ELSE Some(SelectSeq(output_attrs,
                        LAMBDA f : Val(f.entrez) \in Range(known)))

\* genes-as-columns, lines 536-575
commit_columns(t, matcher, selected_genes, exclude, replace, organism) ==
    LET known == known_genes(get_target_ids(matcher))
        features == annotate_all(t, input_features(t), matcher.genes, replace)
        selected ==
            SelectSeq(features, LAMBDA f :
                ~IsNone(f.entrez) /\ Val(f.entrez) \in selected_genes)
        picked == IF selected # <<>> THEN selected ELSE features
        output_attrs == IF exclude THEN exclude_features(picked, known)
                        ELSE Some(picked)
    IN
    IF IsNone(output_attrs) THEN [error |-> "KeyError", data |-> None]
    ELSE [error |-> "none",
          data |-> Some([features |-> Val(output_attrs),
                         rows |-> [i \in 1..t.n |-> [src |-> i, entrez |-> None]],
                         tax |-> organism, gaa |-> TRUE])]

\* gene_matcher.to_data_table(selected_genes or None)
to_data_table(matcher, selected_genes) ==
    [genes |-> get_known_genes(matcher), selected |-> selected_genes]

\* commit: the exception raised or "none", whether the outputs were sent,
\* and what was sent
commit(inp, matcher, selected_genes, attr_names, exclude, replace, organism) ==
    IF IsNone(matcher)
    THEN [error |-> "AttributeError", sent |-> FALSE, data |-> None, genes |-> None]
    ELSE IF known_genes(get_target_ids(Val(matcher))) = <<>>
    THEN [error |-> "none", sent |-> TRUE, data |-> None, genes |-> None]
    ELSE IF IsNone(inp)
    THEN [error |-> "AttributeError", sent |-> FALSE, data |-> None, genes |-> None]
    ELSE
    LET r == IF ~attr_names
             THEN commit_rows(Val(inp), Val(matcher), selected_genes, exclude,
                              organism)
             ELSE commit_columns(Val(inp), Val(matcher), selected_genes, exclude,
                                 replace, organism)
    IN
    IF r.error # "none"
    THEN [error |-> r.error, sent |-> FALSE, data |-> None, genes |-> None]
    ELSE [error |-> "none", sent |-> TRUE, data |-> r.data,
          genes |-> Some(to_data_table(Val(matcher), selected_genes))]

-----------------------------------------------------------------------------
(* The tables given to the widget *)

A == <<"a">>
B == <<"b">>
X == <<"x">>
ASpace == <<"a", " ">>

\* genes as feature names, one of them unknown to the matcher
ColumnsTable ==
    [attrs |-> <<A, X>>, metas |-> <<>>, n |-> 1, tax |-> None, gaa |-> None]

\* a feature name that ends in a blank
BlankNameTable ==
    [attrs |-> <<ASpace, X>>, metas |-> <<>>, n |-> 1, tax |-> None, gaa |-> None]

\* no features, genes in a string column, a row with a missing gene
MissingRowTable ==
    [attrs |-> <<>>, metas |-> <<[kind |-> "string", values |-> <<B, Missing>>]>>,
     n |-> 2, tax |-> None, gaa |-> None]

\* features and two candidate columns, with the organism and the gene location
\* given in the table attributes
AnnotatedTable ==
    [attrs |-> <<B>>,
     metas |-> <<[kind |-> "string", values |-> <<A, A>>],
                 [kind |-> "discrete", values |-> <<A, B>>]>>,
     n |-> 2, tax |-> Some("10090"), gaa |-> Some(FALSE)]

\* a table without rows: len(data) = 0
NoRowsTable ==
    [attrs |-> <<A>>, metas |-> <<>>, n |-> 0, tax |-> None, gaa |-> None]

Tables == {ColumnsTable, BlankNameTable, MissingRowTable, AnnotatedTable,
           NoRowsTable}

\* the tables the widget connected to the input can send in one session
Sessions == {{ColumnsTable, MissingRowTable, NoRowsTable},
             {BlankNameTable, NoRowsTable},
             {AnnotatedTable}}

\* bool(data): None and a table without rows are false
truthy(data) == ~IsNone(data) /\ Val(data).n > 0

-----------------------------------------------------------------------------
(* OWGenes: input options and the matcher worker *)

get_selected_organism(index) == organisms[index + 1]

\* self.organisms.index(tax)
organism_index(tax) == (CHOOSE i \in 1..Len(organisms) : organisms[i] = tax) - 1

\* threadpool: stale counts the workers whose matcher has been replaced, cur
\* is -1 or the number of genes the worker of gene_matcher has matched
NoWorker == -1

in_flight(pool) == pool.stale + (IF pool.cur # NoWorker THEN 1 ELSE 0)

\* threadpool.start(worker) in match_genes
start_worker(pool) == [stale |-> in_flight(pool), cur |-> 0]

\* gene_names_from_table: the names, the gene column, and the error
gene_names_from_table(inp, attr_names, gene_col) ==
    IF ~truthy(inp)
    THEN [error |-> "none", genes |-> <<>>, gene_col |-> gene_col]
    ELSE IF attr_names
    THEN [error |-> "none",
          genes |-> [i \in 1..Len(Val(inp).attrs) |-> strip(Val(inp).attrs[i])],
          gene_col |-> gene_col]
    ELSE
    LET found == IF gene_col = 0 THEN gene_column_identifier(Val(inp), equal_nan)
                 ELSE Some(gene_col)
    IN
    IF IsNone(found)
    THEN [error |-> "IndexError", genes |-> <<>>, gene_col |-> gene_col]
    ELSE [error |-> "none",
          genes |-> SelectSeq(Val(inp).metas[Val(found)].values,
                              LAMBDA e : e # Missing),
          gene_col |-> Val(found)]

\* on_input_option_change, for the input options given: __reset_widget_state,
\* _update_gene_matcher, match_genes
on_input_option_change(inp, attr_names, gene_col, organism) ==
    LET names == gene_names_from_table(inp, attr_names, gene_col) IN
    /\ table' = ClearedTable
    /\ selection' = {}
    /\ input_genes' = Some(names.genes)
    /\ selected_gene_col' = names.gene_col
    /\ error' = names.error
    /\ IF names.error # "none"
       THEN UNCHANGED <<gene_matcher, threadpool>>
       ELSE /\ gene_matcher' =
                  Some(NewGeneMatcher(get_selected_organism(organism), names.genes))
            /\ threadpool' = start_worker(threadpool)
    /\ committed' = FALSE
    /\ result' = None
    /\ UNCHANGED <<data_table, row_cache, data_out, genes_out,
                   exclude_unmatched, replace_id_with_symbol,
                   exclude_radio, replace_radio>>

\* reading the taxonomy id without the default
table_tax_id_no_default(t) == IF IsNone(t.tax) THEN "None" ELSE Val(t.tax)

\* the taxonomy id handle_input reads from the table
table_tax_id(t) == IF IsNone(t.tax) THEN "9606" ELSE Val(t.tax)

\* the gene location handle_input reads from the table
table_use_attr_names(t, current) == IF IsNone(t.gaa) THEN current ELSE Val(t.gaa)

\* handle_input(data)
handle_input(data) ==
    /\ last_op' = [op |-> "handle_input", data |-> data]
    /\ UNCHANGED <<upstream, equal_nan>>
    /\ input_data' = IF truthy(data) THEN data ELSE None
    /\ IF ~truthy(data)
       THEN /\ input_genes' = None
            /\ table' = ClearedTable
            /\ selection' = {}
            /\ selected_gene_col' = 0
            /\ error' = "none"
            /\ committed' = FALSE
            /\ result' = None
            /\ UNCHANGED <<tax_id, selected_organism, use_attr_names,
                           exclude_unmatched, replace_id_with_symbol,
                           exclude_radio, replace_radio, gene_matcher,
                           threadpool, data_out, genes_out, data_table,
                           row_cache>>
       ELSE
       LET t == Val(data)
           tax == table_tax_id(t)
           attr_names == table_use_attr_names(t, use_attr_names)
           organism == IF tax \in Range(organisms) THEN organism_index(tax)
                       ELSE selected_organism
           \* find_genes_location
           located == IF t.attrs = <<>> THEN gene_column_identifier(t, equal_nan)
                      ELSE Some(0)
       IN
       /\ in_flight(threadpool) < MaxWorkers
       /\ tax_id' = Some(tax)
       /\ selected_organism' = organism
       /\ IF IsNone(located)
          THEN \* IndexError in gene_column_identifier
               /\ use_attr_names' = attr_names
               /\ input_genes' = None
               /\ table' = ClearedTable
               /\ selection' = {}
               /\ selected_gene_col' = 0
               /\ error' = "IndexError"
               /\ committed' = FALSE
               /\ result' = None
               /\ UNCHANGED <<exclude_unmatched, replace_id_with_symbol,
                              exclude_radio, replace_radio, gene_matcher,
                              threadpool, data_out, genes_out, data_table,
                              row_cache>>
          ELSE LET located_attr_names ==
                       IF t.attrs = <<>> THEN FALSE ELSE attr_names
               IN /\ use_attr_names' = located_attr_names
                  /\ on_input_option_change(data, located_attr_names,
                                            Val(located), organism)

\* the organism combo box: callback on_input_option_change
organism_changed(index) ==
    /\ index # selected_organism
    /\ in_flight(threadpool) < MaxWorkers
    /\ last_op' = [op |-> "other", data |-> None]
    /\ selected_organism' = index
    /\ on_input_option_change(input_data, use_attr_names, selected_gene_col, index)
    /\ UNCHANGED <<upstream, equal_nan, input_data, tax_id, use_attr_names>>

\* the gene column combo box, enabled while genes are not the feature names
gene_column_changed(column) ==
    /\ ~use_attr_names
    /\ ~IsNone(input_data)
    /\ column \in Range(gene_columns_model(Val(input_data)))
    /\ column # selected_gene_col
    /\ in_flight(threadpool) < MaxWorkers
    /\ last_op' = [op |-> "other", data |-> None]
    /\ on_input_option_change(input_data, use_attr_names, column,
                              selected_organism)
    /\ UNCHANGED <<upstream, equal_nan, input_data, tax_id, use_attr_names, selected_organism>>

\* the 'Stored as feature (column) names' box
attr_names_changed ==
    /\ in_flight(threadpool) < MaxWorkers
    /\ last_op' = [op |-> "other", data |-> None]
    /\ use_attr_names' = ~use_attr_names
    /\ on_input_option_change(input_data, ~use_attr_names, selected_gene_col,
                              selected_organism)
    /\ UNCHANGED <<upstream, equal_nan, input_data, tax_id, selected_organism>>

\* the effect of commit() on the outputs, for the options given
do_commit(selected_genes, exclude, replace) ==
    LET r == commit(input_data, gene_matcher, selected_genes, use_attr_names,
                    exclude, replace, get_selected_organism(selected_organism))
    IN /\ committed' = TRUE
       /\ error' = r.error
       /\ data_out' = IF r.sent THEN r.data ELSE data_out
       /\ genes_out' = IF r.sent THEN r.genes ELSE genes_out
       /\ result' = None

\* the 'Exclude unmatched genes' box: callback commit
exclude_changed ==
    /\ exclude_radio
    /\ last_op' = [op |-> "other", data |-> None]
    /\ exclude_unmatched' = ~exclude_unmatched
    /\ do_commit(selection, ~exclude_unmatched, replace_id_with_symbol)
    /\ UNCHANGED <<upstream, equal_nan, input_data, input_genes, tax_id, selected_organism,
                   selected_gene_col, use_attr_names, replace_id_with_symbol,
                   exclude_radio, replace_radio, gene_matcher, threadpool,
                   selection, data_table, table, row_cache>>

\* the 'Replace feature IDs with gene names' box: callback commit
replace_changed ==
    /\ replace_radio
    /\ last_op' = [op |-> "other", data |-> None]
    /\ replace_id_with_symbol' = ~replace_id_with_symbol
    /\ do_commit(selection, exclude_unmatched, ~replace_id_with_symbol)
    /\ UNCHANGED <<upstream, equal_nan, input_data, input_genes, tax_id, selected_organism,
                   selected_gene_col, use_attr_names, exclude_unmatched,
                   exclude_radio, replace_radio, gene_matcher, threadpool,
                   selection, data_table, table, row_cache>>

\* rows selected in table_view: selectionChanged is connected to commit.  The
\* ids commit reads through row.data() are taken from the rows wrapped.
selection_changed(selected) ==
    /\ selected \subseteq shown_ids(table)
    /\ selected # selection
    /\ last_op' = [op |-> "other", data |-> None]
    /\ selection' = selected
    /\ do_commit(selected, exclude_unmatched, replace_id_with_symbol)
    /\ UNCHANGED <<upstream, equal_nan, input_data, input_genes, tax_id, selected_organism,
                   selected_gene_col, use_attr_names, exclude_unmatched,
                   replace_id_with_symbol, exclude_radio, replace_radio,
                   gene_matcher, threadpool, data_table, table, row_cache>>

\* the worker of the current matcher matches its next gene (run_matcher in
\* the worker thread)
run_matcher ==
    /\ threadpool.cur # NoWorker
    /\ threadpool.cur < Len(Val(gene_matcher).genes)
    /\ last_op' = [op |-> "other", data |-> None]
    /\ gene_matcher' = Some(run_matcher_step(Val(gene_matcher), threadpool.cur + 1))
    /\ threadpool' = [threadpool EXCEPT !.cur = threadpool.cur + 1]
    /\ error' = "none"
    /\ committed' = FALSE
    /\ result' = None
    /\ UNCHANGED <<upstream, equal_nan, input_data, input_genes, tax_id, selected_organism,
                   selected_gene_col, use_attr_names, exclude_unmatched,
                   replace_id_with_symbol, exclude_radio, replace_radio,
                   selection, data_out, genes_out, data_table, table, row_cache>>

\* toggle_radio_options: exclude_unmatched and the state of exclude_radio
unmatched_present(matcher) ==
    Len(matcher.genes) # Len(get_known_genes(matcher))

\* _handle_matcher_results, run in the main thread for a finished signal
handle_matcher_results ==
    LET matcher == Val(gene_matcher)
        exclude == IF matcher.genes # <<>> THEN unmatched_present(matcher)
                   ELSE exclude_unmatched
        shown == show_table(initialize_table(matcher.genes), <<>>, row_cache)
    IN
    /\ replace_radio' = use_attr_names
    /\ exclude_radio' = IF matcher.genes # <<>> THEN unmatched_present(matcher)
                        ELSE exclude_radio
    /\ exclude_unmatched' = exclude
    /\ data_table' = Some(initialize_table(matcher.genes))
    /\ table' = shown.table
    /\ row_cache' = shown.cache
    /\ selection' = {}
    /\ do_commit({}, exclude, replace_id_with_symbol)
    /\ UNCHANGED <<upstream, equal_nan, input_data, input_genes, tax_id, selected_organism,
                   selected_gene_col, use_attr_names, replace_id_with_symbol,
                   gene_matcher>>

\* the worker of the current matcher has matched every gene and its finished
\* signal is delivered
worker_finished ==
    /\ threadpool.cur # NoWorker
    /\ threadpool.cur = Len(Val(gene_matcher).genes)
    /\ last_op' = [op |-> "other", data |-> None]
    /\ threadpool' = [threadpool EXCEPT !.cur = NoWorker]
    /\ handle_matcher_results

\* the finished signal of a worker whose matcher has been replaced since
stale_worker_finished ==
    /\ threadpool.stale > 0
    /\ last_op' = [op |-> "other", data |-> None]
    /\ threadpool' = [threadpool EXCEPT !.stale = threadpool.stale - 1]
    /\ handle_matcher_results

-----------------------------------------------------------------------------
(* The widget *)

\* the attributes OWGenes.__init__ and GeneInfoModel.__init__ set, and the
\* defaults of the settings
Constructed ==
    /\ input_genes = None
    /\ tax_id = None
    /\ selected_gene_col = 0
    /\ use_attr_names = TRUE
    /\ exclude_unmatched = TRUE
    /\ replace_id_with_symbol = TRUE
    /\ exclude_radio = TRUE
    /\ replace_radio = TRUE
    /\ gene_matcher = None
    /\ threadpool = [stale |-> 0, cur |-> NoWorker]
    /\ selection = {}
    /\ data_out = None
    /\ genes_out = None
    /\ data_table = None
    /\ table = <<>>
    /\ row_cache = EmptyCache
    /\ last_op = [op |-> "other", data |-> None]
    /\ error = "none"
    /\ committed = FALSE
    /\ result = None

\* selected_organism is a stored setting: any organism may be selected.  No
\* table of Sessions has a missing value in a discrete column, so that
\* equal_nan decides nothing here.
Init ==
    /\ upstream \in Sessions
    /\ equal_nan = FALSE
    /\ input_data = None
    /\ selected_organism \in 0..(Len(organisms) - 1)
    /\ Constructed

Next ==
    \/ \E data \in {None} \cup {Some(t) : t \in upstream} : handle_input(data)
    \/ \E index \in 0..(Len(organisms) - 1) : organism_changed(index)
    \/ \E column \in 1..MaxCols : gene_column_changed(column)
    \/ attr_names_changed
    \/ exclude_changed
    \/ replace_changed
    \/ \E selected \in SUBSET shown_ids(table) : selection_changed(selected)
    \/ run_matcher
    \/ worker_finished
    \/ stale_worker_finished

Spec == Init /\ [][Next]_vars

\* the widget driven by its input signal alone: no option is changed by hand
InputNext ==
    \/ \E data \in {None} \cup {Some(t) : t \in upstream} : handle_input(data)
    \/ run_matcher
    \/ worker_finished
    \/ stale_worker_finished

InputSpec == Init /\ [][InputNext]_vars

-----------------------------------------------------------------------------
(* GeneInfoModel on its own: initialize, clear, show_table and data *)

\* the lists of genes a matcher hands to initialize
MatchedGenes == {match_gene("9606", NewGene(name)) : name \in {A, B, X}}

GeneLists == {<<>>} \cup {<<g>> : g \in MatchedGenes}
                    \cup {<<g, h>> : g \in MatchedGenes, h \in MatchedGenes}

FilterPatterns == {<<>>, <<"a">>, <<"2">>}

ModelInit ==
    /\ upstream = {}
    /\ equal_nan = FALSE
    /\ input_data = None
    /\ selected_organism = 0
    /\ Constructed

\* what the widget holds stays as it is
widget_unchanged ==
    UNCHANGED <<upstream, equal_nan, input_data, input_genes, tax_id,
                selected_organism, selected_gene_col, use_attr_names,
                exclude_unmatched, replace_id_with_symbol, exclude_radio,
                replace_radio, gene_matcher, threadpool, selection, data_out,
                genes_out, committed>>

\* GeneInfoModel.initialize(list_of_genes)
model_initialize(list_of_genes) ==
    LET shown == show_table(initialize_table(list_of_genes), <<>>, row_cache) IN
    /\ last_op' = [op |-> "initialize", data |-> None]
    /\ data_table' = Some(initialize_table(list_of_genes))
    /\ table' = shown.table
    /\ row_cache' = shown.cache
    /\ error' = "none"
    /\ result' = None
    /\ widget_unchanged

\* GeneInfoModel.clear()
model_clear ==
    /\ last_op' = [op |-> "clear", data |-> None]
    /\ table' = ClearedTable
    /\ error' = "none"
    /\ result' = None
    /\ UNCHANGED <<data_table, row_cache>>
    /\ widget_unchanged

\* GeneInfoModel.show_table(filter_pattern), as apply_filter calls it;
\* filter_table raises ValueError for a data_table without rows, whose shape
\* has one dimension
model_show_table(filter_pattern) ==
    /\ ~IsNone(data_table)
    /\ last_op' = [op |-> "show_table", data |-> None]
    /\ result' = None
    /\ IF filter_pattern # <<>> /\ Val(data_table) = <<>>
       THEN /\ error' = "ValueError"
            /\ UNCHANGED <<table, row_cache>>
       ELSE LET shown == show_table(Val(data_table), filter_pattern, row_cache)
            IN /\ error' = "none"
               /\ table' = shown.table
               /\ row_cache' = shown.cache
    /\ UNCHANGED data_table
    /\ widget_unchanged

\* GeneInfoModel.data(index, Qt.DisplayRole)
model_data_call(row, column) ==
    LET r == model_data(table, row_cache, row, column) IN
    /\ last_op' = [op |-> "data", data |-> <<row, column>>]
    /\ result' = r.value
    /\ row_cache' = r.cache
    /\ error' = "none"
    /\ UNCHANGED <<data_table, table>>
    /\ widget_unchanged

ModelNext ==
    \/ \E list_of_genes \in GeneLists : model_initialize(list_of_genes)
    \/ model_clear
    \/ \E filter_pattern \in FilterPatterns : model_show_table(filter_pattern)
    \/ \E row \in 0..MaxRow, column \in 0..LastColumn : model_data_call(row, column)

ModelSpec == ModelInit /\ [][ModelNext]_vars

-----------------------------------------------------------------------------
(* gene_column_identifier on its own *)

ColumnValues == {A, B, Missing}

\* the columns of ColumnRows rows; a continuous column is no candidate and
\* its values are not read
Columns ==
    {[kind |-> k, values |-> v] :
        k \in {"string", "discrete"}, v \in [1..ColumnRows -> ColumnValues]}
    \cup {[kind |-> "continuous", values |-> [i \in 1..ColumnRows |-> A]]}

ColumnTables ==
    {[attrs |-> <<>>, metas |-> m, n |-> ColumnRows, tax |-> None, gaa |-> None] :
        m \in UNION {[1..k -> Columns] : k \in 1..MaxCols}}

ColumnInit ==
    /\ upstream = {}
    /\ equal_nan \in BOOLEAN
    /\ input_data \in {Some(t) : t \in ColumnTables}
    /\ selected_organism = 0
    /\ Constructed

\* self.selected_gene_col = self.gene_column_identifier()
identify_gene_column ==
    LET found == gene_column_identifier(Val(input_data), equal_nan) IN
    /\ last_op.op # "gene_column_identifier"
    /\ last_op' = [op |-> "gene_column_identifier", data |-> None]
    /\ result' = found
    /\ error' = IF IsNone(found) THEN "IndexError" ELSE "none"
    /\ selected_gene_col' = IF IsNone(found) THEN 0 ELSE Val(found)
    /\ UNCHANGED <<upstream, equal_nan, input_data, input_genes, tax_id,
                   selected_organism, use_attr_names, exclude_unmatched,
                   replace_id_with_symbol, exclude_radio, replace_radio,
                   gene_matcher, threadpool, selection, data_out, genes_out,
                   data_table, table, row_cache, committed>>

ColumnNext == identify_gene_column

ColumnSpec == ColumnInit /\ [][ColumnNext]_vars

-----------------------------------------------------------------------------
(* Properties *)

\* the ids the current matcher holds, as commit reads them
current_known ==
    IF IsNone(gene_matcher) THEN <<>>
    ELSE known_genes(get_target_ids(Val(gene_matcher)))

\* the last handler ran commit with an input table and a matched gene
commit_with_known ==
    committed /\ ~IsNone(input_data) /\ current_known # <<>>

\* the id the matcher holds for a gene name, '?' when it holds none
id_of_name(name) ==
    LET genes == Val(gene_matcher).genes
        hits == {k \in 1..Len(genes) :
                    genes[k].input_name = name /\ genes[k].ncbi_id # 0}
    IN IF hits = {} THEN Unknown ELSE str(genes[CHOOSE k \in hits : TRUE].ncbi_id)

\* C1: at most one worker started by match_genes is in flight at any time
C1_SingleWorkerInFlight == in_flight(threadpool) <= 1

\* C2: a commit with exclude_unmatched on and a matched gene emits a Data
\* table without unmatched genes: every row has an Entrez id other than '?'
\* (genes as rows), every feature has an Entrez id attribute that is a matched
\* id (genes as columns); with exclude_unmatched off and nothing selected,
\* every row and feature of the input is kept
C2_ExcludeUnmatched ==
    commit_with_known =>
        /\ error = "none"
        /\ ~IsNone(data_out)
        /\ LET out == Val(data_out) IN
           IF exclude_unmatched
           THEN IF use_attr_names
                THEN \A i \in 1..Len(out.features) :
                        /\ ~IsNone(out.features[i].entrez)
                        /\ Val(out.features[i].entrez) \in Range(current_known)
                ELSE \A i \in 1..Len(out.rows) :
                        /\ ~IsNone(out.rows[i].entrez)
                        /\ Val(out.rows[i].entrez) # Unknown
           ELSE selection = {} =>
                /\ {out.rows[i].src : i \in 1..Len(out.rows)}
                     = 1..Val(input_data).n
                /\ {out.features[i].src : i \in 1..Len(out.features)}
                     = 1..Len(Val(input_data).attrs)

\* C3: renaming is optional and applies to genes as columns only: with
\* replace_id_with_symbol on, an output feature whose input name is a gene the
\* matcher knows has that gene's symbol as its name; with it off, and always
\* with genes as rows, an output feature has its input name
C3_RenameOnlyColumns ==
    (committed /\ error = "none" /\ ~IsNone(data_out)) =>
        LET out == Val(data_out)
            genes == Val(gene_matcher).genes
        IN \A i \in 1..Len(out.features) :
            LET f == out.features[i]
                name == Val(input_data).attrs[f.src]
            IN IF use_attr_names /\ replace_id_with_symbol
               THEN \A k \in 1..Len(genes) :
                       (genes[k].input_name = name /\ genes[k].ncbi_id # 0)
                           => f.name = genes[k].symbol
               ELSE f.name = name

\* a commit with replacement on that renamed a feature, and kept another
C3_Witness ==
    /\ committed /\ error = "none" /\ ~IsNone(data_out)
    /\ use_attr_names /\ replace_id_with_symbol
    /\ \E i \in 1..Len(Val(data_out).features) :
          Val(data_out).features[i].name = <<"A">>
    /\ \E i \in 1..Len(Val(data_out).features) :
          Val(data_out).features[i].name = X

\* number of distinct values of a column
distinct_values(column) == Cardinality(Range(column.values))

\* C4: with at least one string or discrete column, gene_column_identifier
\* returns a string or discrete column and no string or discrete column has
\* more distinct values
C4_MostDistinctValues ==
    (/\ last_op.op = "gene_column_identifier"
     /\ gene_columns_model(Val(input_data)) # <<>>) =>
        LET metas == Val(input_data).metas IN
        /\ ~IsNone(result)
        /\ metas[Val(result)].kind \in {"string", "discrete"}
        /\ \A i \in 1..Len(metas) :
              metas[i].kind \in {"string", "discrete"} =>
                  distinct_values(metas[i]) <= distinct_values(metas[Val(result)])

\* C5: after every commit the value last sent is None on both outputs when no
\* input gene has an Entrez id, and a table on both when one has
C5_BothOutputs ==
    committed =>
        IF current_known = <<>>
        THEN IsNone(data_out) /\ IsNone(genes_out)
        ELSE ~IsNone(data_out) /\ ~IsNone(genes_out)

\* C6: with genes as rows, commit writes into the Entrez ID column of every
\* row the id the matcher found for the value of that row in the gene column,
\* or '?'
C6_RowAlignment ==
    (commit_with_known /\ ~use_attr_names) =>
        /\ error = "none"
        /\ ~IsNone(data_out)
        /\ selected_gene_col # 0
        /\ LET out == Val(data_out)
               column == Val(input_data).metas[selected_gene_col].values
           IN \A i \in 1..Len(out.rows) :
                 out.rows[i].entrez = Some(id_of_name(column[out.rows[i].src]))

\* C7, as stated: after handle_input of a table without a taxonomy id the
\* selected organism is 9606
C7_HumanByDefault ==
    (/\ last_op.op = "handle_input"
     /\ ~IsNone(last_op.data)
     /\ IsNone(Val(last_op.data).tax)) =>
        get_selected_organism(selected_organism) = "9606"

\* C7, amended: after handle_input of a table with at least one row and
\* without a taxonomy id the selected organism is 9606
C7_HumanByDefaultWithRows ==
    (/\ last_op.op = "handle_input"
     /\ truthy(last_op.data)
     /\ IsNone(Val(last_op.data).tax)) =>
        get_selected_organism(selected_organism) = "9606"

\* handle_input of such a table has run, after a table that carried another
\* organism
C7_Witness ==
    /\ last_op.op = "handle_input"
    /\ truthy(last_op.data)
    /\ IsNone(Val(last_op.data).tax)
    /\ tax_id = Some("9606")
    /\ ~IsNone(data_out)
    /\ Val(data_out).tax = "10090"

\* C8: after handle_input of a table that has features and does not give the
\* gene location, genes are read from the feature names
C8_DefaultFeatureNames ==
    (/\ last_op.op = "handle_input"
     /\ ~IsNone(last_op.data)
     /\ Val(last_op.data).attrs # <<>>
     /\ IsNone(Val(last_op.data).gaa)) =>
        use_attr_names

\* C9: data(index, DisplayRole), asked for a cell of the table the model
\* wraps now, returns the text of that cell
C9_DataOfWrappedTable ==
    (/\ last_op.op = "data"
     /\ ~IsNone(cell_at(table, last_op.data[1], last_op.data[2]))) =>
        result = cell_at(table, last_op.data[1], last_op.data[2])

====
